---------------------------- MODULE Spec2Model ----------------------------
(***************************************************************************)
(* Model of connect-via-env-for-vsphere-info-vim25.go: one run of main().   *)
(* The run parses the endpoint URL, logs in, and for HostSystem, Datastore  *)
(* and VirtualMachine creates a container view, retrieves the "summary"     *)
(* property, and prints one table.  The Destroy of every view and the       *)
(* cancel of the context are deferred calls, run when main returns.         *)
(***************************************************************************)
EXTENDS Integers, Sequences, FiniteSets, TLC

(***************************************************************************)
(* Go integers.  The program computes on int64 values built from int32 and  *)
(* int16 fields; these exceed the integers TLC computes with, so an         *)
(* integer is a sign and a magnitude, the magnitude a little-endian         *)
(* sequence of limbs in 0..Base-1 without a leading zero limb.              *)
(***************************************************************************)
LimbBits == 15

Base == 2^LimbBits

RECURSIVE NNorm(_)
NNorm(a) ==
    IF a = <<>> THEN <<>>
    ELSE IF a[Len(a)] = 0 THEN NNorm(SubSeq(a, 1, Len(a) - 1))
    ELSE a

RECURSIVE NFromInt(_)
NFromInt(n) == IF n = 0 THEN <<>> ELSE <<n % Base>> \o NFromInt(n \div Base)

Limb(a, i) == IF i <= Len(a) THEN a[i] ELSE 0

MaxLen(a, b) == IF Len(a) >= Len(b) THEN Len(a) ELSE Len(b)

RECURSIVE NAddC(_, _, _, _)
NAddC(a, b, i, c) ==
    IF i > MaxLen(a, b)
    THEN IF c = 0 THEN <<>> ELSE <<c>>
    ELSE LET s == Limb(a, i) + Limb(b, i) + c
         IN  <<s % Base>> \o NAddC(a, b, i + 1, s \div Base)

NAdd(a, b) == NNorm(NAddC(a, b, 1, 0))

\* -1, 0, 1 as a is below, equal to, above b
RECURSIVE NCmpAt(_, _, _)
NCmpAt(a, b, i) ==
    IF i = 0 THEN 0
    ELSE IF Limb(a, i) < Limb(b, i) THEN -1
    ELSE IF Limb(a, i) > Limb(b, i) THEN 1
    ELSE NCmpAt(a, b, i - 1)

NCmp(a, b) == NCmpAt(a, b, MaxLen(a, b))

\* a - b for a >= b
RECURSIVE NSubB(_, _, _, _)
NSubB(a, b, i, br) ==
    IF i > Len(a) THEN <<>>
    ELSE LET d == Limb(a, i) - Limb(b, i) - br
         IN  IF d < 0 THEN <<d + Base>> \o NSubB(a, b, i + 1, 1)
             ELSE <<d>> \o NSubB(a, b, i + 1, 0)

NSub(a, b) == NNorm(NSubB(a, b, 1, 0))

\* a * d for one limb d
RECURSIVE NMulLimbC(_, _, _, _)
NMulLimbC(a, d, i, c) ==
    IF i > Len(a)
    THEN IF c = 0 THEN <<>> ELSE <<c>>
    ELSE LET p == a[i] * d + c
         IN  <<p % Base>> \o NMulLimbC(a, d, i + 1, p \div Base)

NMulLimb(a, d) == NNorm(NMulLimbC(a, d, 1, 0))

RECURSIVE NShift(_, _)
NShift(a, n) ==
    IF a = <<>> THEN <<>>
    ELSE IF n = 0 THEN a
    ELSE <<0>> \o NShift(a, n - 1)

RECURSIVE NMulAt(_, _, _)
NMulAt(a, b, j) ==
    IF j > Len(b) THEN <<>>
    ELSE NAdd(NShift(NMulLimb(a, b[j]), j - 1), NMulAt(a, b, j + 1))

NMul(a, b) == NMulAt(a, b, 1)

\* <<quotient, remainder>> of a by a small divisor d, most significant limb first
RECURSIVE NDivLimbAt(_, _, _, _)
NDivLimbAt(a, d, i, r) ==
    IF i = 0 THEN <<<<>>, r>>
    ELSE LET cur  == r * Base + a[i]
             rest == NDivLimbAt(a, d, i - 1, cur % d)
         IN  <<rest[1] \o <<cur \div d>>, rest[2]>>

NDivLimb(a, d) ==
    LET qr == NDivLimbAt(a, d, Len(a), 0) IN <<NNorm(qr[1]), qr[2]>>

NPow2(w) == NShift(<<2^(w % LimbBits)>>, w \div LimbBits)

\* a mod 2^w
RECURSIVE NLowBits(_, _, _)
NLowBits(a, w, i) ==
    IF w <= 0 \/ i > Len(a) THEN <<>>
    ELSE IF w >= LimbBits THEN <<a[i]>> \o NLowBits(a, w - LimbBits, i + 1)
    ELSE <<a[i] % (2^w)>>

NModPow2(a, w) == NNorm(NLowBits(a, w, 1))

Z(neg, mag) == [neg |-> neg /\ mag # <<>>, mag |-> mag]

ZFromInt(n) == IF n < 0 THEN Z(TRUE, NFromInt(0 - n)) ELSE Z(FALSE, NFromInt(n))

ZNeg(a) == Z(~a.neg, a.mag)

ZAdd(a, b) ==
    IF a.neg = b.neg THEN Z(a.neg, NAdd(a.mag, b.mag))
    ELSE IF NCmp(a.mag, b.mag) >= 0 THEN Z(a.neg, NSub(a.mag, b.mag))
    ELSE Z(b.neg, NSub(b.mag, a.mag))

ZSub(a, b) == ZAdd(a, ZNeg(b))

ZMul(a, b) == Z(a.neg # b.neg, NMul(a.mag, b.mag))

ZLess(a, b) == ZSub(a, b).neg

ZPow2(w) == Z(FALSE, NPow2(w))

\* the value of a w-bit two's complement integer holding the low w bits of a
Wrap(a, w) ==
    LET m == NModPow2(a.mag, w)
        u == IF a.neg /\ m # <<>> THEN NSub(NPow2(w), m) ELSE m
    IN  IF NCmp(u, NPow2(w - 1)) >= 0 THEN Z(TRUE, NSub(NPow2(w), u))
        ELSE Z(FALSE, u)

InRange(a, w) == Wrap(a, w) = a

MinInt(w) == ZNeg(ZPow2(w - 1))

MaxInt(w) == ZSub(ZPow2(w - 1), ZFromInt(1))

(***************************************************************************)
(* Text.  A string the program formats is a sequence of characters.         *)
(***************************************************************************)
DigitChar == <<"0", "1", "2", "3", "4", "5", "6", "7", "8", "9">>

RECURSIVE NDigits(_)
NDigits(a) ==
    IF a = <<>> THEN <<>>
    ELSE LET qr == NDivLimb(a, 10)
         IN  NDigits(qr[1]) \o <<DigitChar[qr[2] + 1]>>

\* fmt's %d of an integer
FormatInt(a) ==
    IF a.mag = <<>> THEN <<"0">>
    ELSE (IF a.neg THEN <<"-">> ELSE <<>>) \o NDigits(a.mag)

\* the number of bits of a > 0
RECURSIVE BitsOfLimb(_)
BitsOfLimb(d) == IF d = 0 THEN 0 ELSE 1 + BitsOfLimb(d \div 2)

NBitLen(a) ==
    IF a = <<>> THEN 0 ELSE (Len(a) - 1) * LimbBits + BitsOfLimb(a[Len(a)])

\* a \div 2^s
NShr(a, s) ==
    LET drop == s \div LimbBits
    IN  IF drop >= Len(a) THEN <<>>
        ELSE NDivLimb(SubSeq(a, drop + 1, Len(a)), 2^(s % LimbBits))[1]

NIsOdd(a) == a # <<>> /\ a[1] % 2 = 1

\* a / 2^s rounded to the nearest integer, ties to even
NRoundShr(a, s) ==
    IF s = 0 THEN a
    ELSE LET q    == NShr(a, s)
             r    == NModPow2(a, s)
             half == NCmp(r, NPow2(s - 1))
         IN  IF half > 0 \/ (half = 0 /\ NIsOdd(q))
             THEN NAdd(q, <<1>>) ELSE q

\* float32(b) for b > 0: b rounded to 24 significant bits
Float32(a) ==
    LET s == NBitLen(a) - 24
    IN  IF s <= 0 THEN a ELSE NShift(NMulLimb(NRoundShr(a, s), 2^(s % LimbBits)), s \div LimbBits)

\* fmt's %.1f of a / 2^e: the integer part, a point, one decimal
FormatTenths(a, e) ==
    LET t  == NRoundShr(NMulLimb(a, 10), e)
        qr == NDivLimb(t, 10)
    IN  (IF qr[1] = <<>> THEN <<"0">> ELSE NDigits(qr[1]))
           \o <<".", DigitChar[qr[2] + 1]>>

UnitNames == <<"KB", "MB", "GB", "TB", "PB", "EB">>

RECURSIVE UnitOf_strict(_, _)
UnitOf_strict(b, i) ==
    IF i = 0 THEN 0
    ELSE IF ZLess(ZPow2(10 * i), b) THEN i
    ELSE UnitOf_strict(b, i - 1)

\* the largest unit (1 = KB .. 6 = EB) that b reaches, 0 when b is below KB
RECURSIVE UnitOf(_, _)
UnitOf(b, i) ==
    IF i = 0 THEN 0
    ELSE IF ~ZLess(b, ZPow2(10 * i)) THEN i
    ELSE UnitOf(b, i - 1)

\* units.ByteSize(b).String()
ByteSizeString(b) ==
    LET i == UnitOf(b, Len(UnitNames))
    IN  IF i = 0 THEN FormatInt(b) \o <<"B">>
        ELSE FormatTenths(Float32(b.mag), 10 * i) \o <<UnitNames[i]>>

(***************************************************************************)
(* The inputs of a run: the GOVMOMI_URL value and what the endpoint returns.*)
(***************************************************************************)
MaxObjs == 2

MalformedURLs == {"https://%zz/sdk"}

URLs == {"", "vcsa.example.com", "https://vcsa.example.com/sdk"} \cup MalformedURLs

ParseURL_lenient(s) ==
    IF s \in MalformedURLs THEN [u |-> "nil", err |-> TRUE]
    ELSE [u |-> "https://" \o s, err |-> FALSE]

\* soap.ParseURL: no URL and no error for the empty string, an error for a
\* string url.Parse rejects, the URL otherwise
ParseURL(s) ==
    IF s = "" THEN [u |-> "nil", err |-> FALSE]
    ELSE IF s \in MalformedURLs THEN [u |-> "nil", err |-> TRUE]
    ELSE [u |-> s, err |-> FALSE]

Kinds == <<"HostSystem", "Datastore", "VirtualMachine">>

KindIds == 1..Len(Kinds)

Mi == 1024 * 1024

\* mo.HostSystem, the fields of Summary the program reads; hardware is FALSE
\* for a summary whose Hardware pointer is nil
Host(name, hardware, mhz, cores, cpu, mem, memMiB) ==
    [name |-> name, hardware |-> hardware, CpuMhz |-> mhz, NumCpuCores |-> cores,
     OverallCpuUsage |-> cpu, MemorySize |-> mem, OverallMemoryUsage |-> memMiB]

HostSamples ==
    { Host("esx01", TRUE, ZFromInt(2500), ZFromInt(4), ZFromInt(3000),
           ZPow2(35), ZFromInt(8192)),
      Host("esx02", TRUE, ZFromInt(2000), ZFromInt(2), ZFromInt(5000),
           ZPow2(30), ZFromInt(2048)),
      Host("esx03", FALSE, ZFromInt(0), ZFromInt(0), ZFromInt(0),
           ZFromInt(0), ZFromInt(0)) }

DatastoreSamples ==
    { [name |-> "ds1", type |-> "VMFS", Capacity |-> ZPow2(40), FreeSpace |-> ZPow2(39)],
      [name |-> "ds2", type |-> "NFS", Capacity |-> ZFromInt(0), FreeSpace |-> ZFromInt(0)] }

VMSamples ==
    { [name |-> "vm1", guest |-> "Ubuntu Linux (64-bit)"],
      [name |-> "vm2", guest |-> "Microsoft Windows Server 2019 (64-bit)"] }

SeqsUpTo(S, n) == UNION { [1..m -> S] : m \in 0..n }

(***************************************************************************)
(* The derived host metrics, in int64 arithmetic.                           *)
(***************************************************************************)
Mul64(a, b) == Wrap(ZMul(a, b), 64)

Sub64(a, b) == Wrap(ZSub(a, b), 64)

\* line 174
TotalCPU_int32(hs) == Wrap(ZMul(hs.CpuMhz, hs.NumCpuCores), 32)

TotalCPU(hs) == Mul64(hs.CpuMhz, hs.NumCpuCores)

\* line 175
FreeCPU(hs) == Sub64(TotalCPU(hs), hs.OverallCpuUsage)

\* line 176
FreeMemory_int32(hs) ==
    Sub64(hs.MemorySize,
          Wrap(ZMul(ZMul(hs.OverallMemoryUsage, ZFromInt(1024)), ZFromInt(1024)), 32))

FreeMemory(hs) ==
    Sub64(hs.MemorySize,
          Mul64(Mul64(hs.OverallMemoryUsage, ZFromInt(1024)), ZFromInt(1024)))

\* line 181: units.ByteSize(OverallMemoryUsage) * 1024 * 1024
UsedMemoryBytes(hs) == Mul64(Mul64(hs.OverallMemoryUsage, ZFromInt(1024)), ZFromInt(1024))

(***************************************************************************)
(* Standard output is a sequence of lines.  A line has a type, the kind it  *)
(* belongs to (0 for none) and its cells.                                   *)
(***************************************************************************)
Line(t, k, cells) == [t |-> t, k |-> k, cells |-> cells]

Title(k) ==
    Line("title", k, << <<"*** Host Information ***",
                          "*** Datastore Information ***",
                          "*** VM Information ***">>[k] >>)

Separator(k) ==
    Line("sep", k, << <<"------------------------",
                        "------------------------------",
                        "-----------------------">>[k] >>)

Header(k) ==
    Line("header", k,
         << <<"Name:", "Used CPU:", "Total CPU:", "Free CPU:",
              "Used Memory:", "Total Memory:", "Free Memory:">>,
            <<"Name:", "Type:", "Capacity:", "Free:">>,
            <<"Name:", "Guest Full Name:">> >>[k])

HostRow(hs) ==
    Line("row", 1,
         <<hs.name, FormatInt(hs.OverallCpuUsage), FormatInt(TotalCPU(hs)),
           FormatInt(FreeCPU(hs)), ByteSizeString(UsedMemoryBytes(hs)),
           ByteSizeString(hs.MemorySize), FormatInt(FreeMemory(hs))>>)

DatastoreRow(ds) ==
    Line("row", 2,
         <<ds.name, ds.type, ByteSizeString(ds.Capacity), ByteSizeString(ds.FreeSpace)>>)

VMRow(vm) == Line("row", 3, <<vm.name \o ":", vm.guest>>)

Diag(k, text) == Line("diag", k, <<text>>)

CreateDiag(k) ==
    Diag(k, <<"Unable to create Host Container View: error %s",
              "Unable to create Datastore Container View: error %s",
              "Unable to create Virtual Machine Container View: error %s">>[k])

RetrieveDiag(k) ==
    Diag(k, <<"Unable to retrieve Host information: error %s",
              "Unable to retrieve Datastore information: error %s",
              "Unable to retrieve VM information: error %s">>[k])

(***************************************************************************)
(* The state of a run.                                                      *)
(*   vc        the GOVMOMI_URL value                                        *)
(*   pc        the statement main is at, or blocked in: "start", "parse",   *)
(*             "login", "open", "retrieve", "render", "unwind" (running the *)
(*             deferred calls), "exited"                                    *)
(*   kind      the object kind main is working on (0 before the first)      *)
(*   ctx       the shared context: "none", "live", "cancelled"              *)
(*   deferred  the stack of deferred calls, the last one runs first         *)
(*   calls     the endpoint calls issued so far, in order                   *)
(*   stdout    the lines written to standard output                         *)
(*   exit      how main stopped: "none", "return", "panic", "killed"        *)
(*   hss, dss, vms   the retrieved objects                                  *)
(*   calcPc, calcHost, calcRow   one host summary and the row computed from *)
(*             it, for the properties of the row computation alone          *)
(***************************************************************************)
VARIABLES vc, pc, kind, ctx, deferred, calls, stdout, exit, hss, dss, vms,
          calcPc, calcHost, calcRow

vars == <<vc, pc, kind, ctx, deferred, calls, stdout, exit, hss, dss, vms,
          calcPc, calcHost, calcRow>>

calcVars == <<calcPc, calcHost, calcRow>>

objVars == <<hss, dss, vms>>

Call(op, k, ok) == [op |-> op, k |-> k, ok |-> ok, ctx |-> ctx]

Deferred(f, k) == [f |-> f, k |-> k]

Init ==
    /\ vc \in URLs
    /\ pc = "start"
    /\ kind = 0
    /\ ctx = "none"
    /\ deferred = <<>>
    /\ calls = <<>>
    /\ stdout = <<>>
    /\ exit = "none"
    /\ hss = <<>>
    /\ dss = <<>>
    /\ vms = <<>>
    /\ calcPc = "off"
    /\ calcHost = CHOOSE h \in HostSamples : h.name = "esx01"
    /\ calcRow = Line("row", 1, <<>>)

\* defer f: push the call on the stack of deferred calls
Defer_fifo(d) == deferred' = <<d>> \o deferred

Defer(d) == deferred' = Append(deferred, d)

\* main returns: its deferred calls run next
Return ==
    /\ pc' = "unwind"
    /\ exit' = "return"

\* a nil dereference: main panics, its deferred calls run next
Panic ==
    /\ pc' = "unwind"
    /\ exit' = "panic"

\* the error branches: print the diagnostic and return
Fail_exit(line) ==
    /\ stdout' = Append(stdout, line)
    /\ pc' = "exited"
    /\ exit' = "return"
    /\ kind' = kind

Fail_retry(line) ==
    /\ stdout' = Append(stdout, line)
    /\ UNCHANGED <<pc, exit, kind>>

Fail_noreturn(line) ==
    /\ stdout' = Append(stdout, line)
    /\ pc' = IF pc = "retrieve" THEN "render" ELSE "retrieve"
    /\ kind' = IF kind = 0 THEN 1 ELSE kind
    /\ exit' = exit

Fail_silent(line) ==
    /\ stdout' = stdout
    /\ Return
    /\ kind' = kind

Fail(line) ==
    /\ stdout' = Append(stdout, line)
    /\ Return
    /\ kind' = kind

Start_cancelNow ==
    /\ pc = "start"
    /\ stdout' = stdout \o <<Line("debug", 0, <<"DEBUG: vc is %s", vc>>),
                             Line("debug", 0, <<"DEBUG: user is %s">>),
                             Line("debug", 0, <<"DEBUG: password is %s">>)>>
    /\ ctx' = "cancelled"
    /\ Defer(Deferred("cancel", 0))
    /\ pc' = "parse"
    /\ UNCHANGED <<vc, kind, calls, exit, objVars, calcVars>>

\* lines 72-87: read the environment, print it, create the context
Start ==
    /\ pc = "start"
    /\ stdout' = stdout \o <<Line("debug", 0, <<"DEBUG: vc is %s", vc>>),
                             Line("debug", 0, <<"DEBUG: user is %s">>),
                             Line("debug", 0, <<"DEBUG: password is %s">>)>>
    /\ ctx' = "live"
    /\ Defer(Deferred("cancel", 0))
    /\ pc' = "parse"
    /\ UNCHANGED <<vc, kind, calls, exit, objVars, calcVars>>

\* lines 94-105: parse the URL and set the credentials on it
ParseStep ==
    /\ pc = "parse"
    /\ LET r    == ParseURL(vc)
           note == IF r.u = "nil"
                   THEN <<Diag(0, "could not parse URL (environment variables set?)")>>
                   ELSE <<>>
       IN  IF r.err
           THEN /\ stdout' = stdout \o note
                               \o <<Diag(0, "URL parsing not successful, error %v")>>
                /\ Return
           ELSE IF r.u = "nil"
           THEN /\ stdout' = stdout \o note
                /\ Panic
           ELSE /\ stdout' = stdout
                /\ pc' = "login"
                /\ exit' = exit
    /\ UNCHANGED <<vc, kind, ctx, deferred, calls, objVars, calcVars>>

\* lines 121-129: log in
Login ==
    /\ pc = "login"
    /\ \E ok \in BOOLEAN :
          /\ calls' = Append(calls, Call("Login", 0, ok))
          /\ IF ok
             THEN /\ stdout' = Append(stdout, Line("info", 0, <<"Log in successful">>))
                  /\ pc' = "open"
                  /\ kind' = 1
                  /\ exit' = exit
             ELSE Fail(Diag(0, "Log in not successful- could not get vCenter client: %v"))
    /\ UNCHANGED <<vc, ctx, deferred, objVars, calcVars>>

\* lines 141-148, 193-200, 240-246: create the container view of kind k and
\* defer its Destroy
CreateContainerView_deferFirst(k) ==
    /\ pc = "open"
    /\ kind = k
    /\ \E ok \in BOOLEAN :
          /\ calls' = Append(calls, Call("CreateContainerView", k, ok))
          /\ Defer(Deferred("Destroy", k))
          /\ IF ok
             THEN /\ pc' = "retrieve"
                  /\ UNCHANGED <<stdout, kind, exit>>
             ELSE Fail(CreateDiag(k))
    /\ UNCHANGED <<vc, ctx, objVars, calcVars>>

CreateContainerView(k) ==
    /\ pc = "open"
    /\ kind = k
    /\ \E ok \in BOOLEAN :
          /\ calls' = Append(calls, Call("CreateContainerView", k, ok))
          /\ IF ok
             THEN /\ Defer(Deferred("Destroy", k))
                  /\ pc' = "retrieve"
                  /\ UNCHANGED <<stdout, kind, exit>>
             ELSE /\ Fail(CreateDiag(k))
                  /\ UNCHANGED deferred
    /\ UNCHANGED <<vc, ctx, objVars, calcVars>>

Samples(k) == <<HostSamples, DatastoreSamples, VMSamples>>[k]

\* lines 155-162, 207-213, 253-259: retrieve the summary of every object of
\* kind k in the view
Retrieve(k) ==
    /\ pc = "retrieve"
    /\ kind = k
    /\ \E ok \in BOOLEAN :
          /\ calls' = Append(calls, Call("Retrieve", k, ok))
          /\ IF ok
             THEN /\ \E objs \in SeqsUpTo(Samples(k), MaxObjs) :
                        /\ hss' = IF k = 1 THEN objs ELSE hss
                        /\ dss' = IF k = 2 THEN objs ELSE dss
                        /\ vms' = IF k = 3 THEN objs ELSE vms
                  /\ pc' = "render"
                  /\ UNCHANGED <<stdout, kind, exit>>
             ELSE /\ Fail(RetrieveDiag(k))
                  /\ UNCHANGED objVars
    /\ UNCHANGED <<vc, ctx, deferred, calcVars>>

\* s without the elements that repeat an earlier one
RECURSIVE DedupAt(_, _)
DedupAt(s, i) ==
    IF i > Len(s) THEN <<>>
    ELSE (IF \E j \in 1..(i - 1) : s[j] = s[i] THEN <<>> ELSE <<s[i]>>)
            \o DedupAt(s, i + 1)

\* the rows of the objects the endpoint can return, computed once
HostRowOf == [hs \in HostSamples |-> HostRow(hs)]

DatastoreRowOf == [ds \in DatastoreSamples |-> DatastoreRow(ds)]

Rows_dedup(k) ==
    IF k = 1 THEN DedupAt([i \in 1..Len(hss) |-> HostRowOf[hss[i]]], 1)
    ELSE IF k = 2 THEN DedupAt([i \in 1..Len(dss) |-> DatastoreRowOf[dss[i]]], 1)
    ELSE DedupAt([i \in 1..Len(vms) |-> VMRow(vms[i])], 1) \o <<Line("blank", 3, <<>>)>>

\* the loops at lines 173-185, 224-230, 270-273: one row per object, in order
Rows(k) ==
    IF k = 1 THEN [i \in 1..Len(hss) |-> HostRowOf[hss[i]]]
    ELSE IF k = 2 THEN [i \in 1..Len(dss) |-> DatastoreRowOf[dss[i]]]
    ELSE [i \in 1..Len(vms) |-> VMRow(vms[i])] \o <<Line("blank", 3, <<>>)>>

\* what the tabwriter of kind k holds when it is flushed
Table(k) == <<Header(k)>> \o Rows(k)

\* lines 174-176 dereference hs.Summary.Hardware
NilHardware == \E i \in 1..Len(hss) : ~hss[i].hardware

\* lines 168-187, 219-232, 265-277: print the table of kind k
Render_flushFirst(k) ==
    /\ pc = "render"
    /\ kind = k
    /\ IF k = 1 /\ NilHardware
       THEN /\ stdout' = stdout \o <<Title(k), Separator(k)>>
            /\ Panic
            /\ kind' = kind
       ELSE /\ stdout' = stdout \o Table(k) \o <<Title(k), Separator(k)>>
            /\ IF k < Len(Kinds)
               THEN /\ pc' = "open"
                    /\ kind' = k + 1
                    /\ exit' = exit
               ELSE /\ Return
                    /\ kind' = kind
    /\ UNCHANGED <<vc, ctx, deferred, calls, objVars, calcVars>>

Render_noFlush(k) ==
    /\ pc = "render"
    /\ kind = k
    /\ stdout' = stdout \o <<Title(k), Separator(k)>>
    /\ IF k = 1 /\ NilHardware
       THEN /\ Panic
            /\ kind' = kind
       ELSE IF k < Len(Kinds)
       THEN /\ pc' = "open"
            /\ kind' = k + 1
            /\ exit' = exit
       ELSE /\ Return
            /\ kind' = kind
    /\ UNCHANGED <<vc, ctx, deferred, calls, objVars, calcVars>>

Render(k) ==
    /\ pc = "render"
    /\ kind = k
    /\ IF k = 1 /\ NilHardware
       THEN /\ stdout' = stdout \o <<Title(k), Separator(k)>>
            /\ Panic
            /\ kind' = kind
       ELSE /\ stdout' = stdout \o <<Title(k), Separator(k)>> \o Table(k)
            /\ IF k < Len(Kinds)
               THEN /\ pc' = "open"
                    /\ kind' = k + 1
                    /\ exit' = exit
               ELSE /\ Return
                    /\ kind' = kind
    /\ UNCHANGED <<vc, ctx, deferred, calls, objVars, calcVars>>

\* lines 87, 148, 200, 246: main is returning or panicking; the deferred call
\* pushed last runs, and the process exits after the first one pushed
RunDeferred ==
    /\ pc = "unwind"
    /\ deferred # <<>>
    /\ LET d == deferred[Len(deferred)]
       IN  IF d.f = "cancel"
           THEN /\ ctx' = "cancelled"
                /\ calls' = calls
           ELSE /\ \E ok \in BOOLEAN : calls' = Append(calls, Call("Destroy", d.k, ok))
                /\ ctx' = ctx
    /\ deferred' = SubSeq(deferred, 1, Len(deferred) - 1)
    /\ pc' = IF Len(deferred) = 1 THEN "exited" ELSE pc
    /\ UNCHANGED <<vc, kind, stdout, exit, objVars, calcVars>>

Next ==
    \/ Start
    \/ ParseStep
    \/ Login
    \/ \E k \in KindIds : CreateContainerView(k)
    \/ \E k \in KindIds : Retrieve(k)
    \/ \E k \in KindIds : Render(k)
    \/ RunDeferred

Spec == Init /\ [][Next]_vars

(***************************************************************************)
(* The run under a process interrupt.  main installs no signal handler and  *)
(* never hands cancel to one, so an interrupt does not cancel ctx: the      *)
(* process is terminated where it stands and no deferred call runs.         *)
(***************************************************************************)
Interrupt ==
    /\ pc \in {"open", "retrieve"}
    /\ pc' = "exited"
    /\ exit' = "killed"
    /\ UNCHANGED <<vc, kind, ctx, deferred, calls, stdout, objVars, calcVars>>

NextInterrupt ==
    \/ Next
    \/ Interrupt

SpecInterrupt == Init /\ [][NextInterrupt]_vars

(***************************************************************************)
(* The row computation alone, on host summaries over the ranges of the      *)
(* fields: CpuMhz and OverallCpuUsage are int32, NumCpuCores is int16,      *)
(* MemorySize is a byte count in int64, OverallMemoryUsage a MiB count in   *)
(* int32.                                                                   *)
(***************************************************************************)
HostDomain ==
    { Host("esx", TRUE, mhz, cores, cpu, mem, memMiB) :
        mhz    \in {MinInt(32), ZFromInt(-1), ZFromInt(0), ZFromInt(2000),
                    ZFromInt(2500), MaxInt(32)},
        cores  \in {MinInt(16), ZFromInt(0), ZFromInt(2), ZFromInt(4), MaxInt(16)},
        cpu    \in {MinInt(32), ZFromInt(0), ZFromInt(3000), ZFromInt(5000), MaxInt(32)},
        mem    \in {ZFromInt(0), ZPow2(30), ZPow2(35), MaxInt(64)},
        memMiB \in {ZFromInt(0), ZFromInt(2048), ZFromInt(8192), MaxInt(32)} }

InitCalc ==
    /\ vc = ""
    /\ pc = "start"
    /\ kind = 0
    /\ ctx = "none"
    /\ deferred = <<>>
    /\ calls = <<>>
    /\ stdout = <<>>
    /\ exit = "none"
    /\ hss = <<>>
    /\ dss = <<>>
    /\ vms = <<>>
    /\ calcPc = "ready"
    /\ calcHost \in HostDomain
    /\ calcRow = Line("row", 1, <<>>)

\* lines 174-184: the body of the loop over the hosts
ComputeHostRow ==
    /\ calcPc = "ready"
    /\ calcRow' = HostRow(calcHost)
    /\ calcPc' = "done"
    /\ UNCHANGED <<vc, pc, kind, ctx, deferred, calls, stdout, exit, objVars, calcHost>>

NextCalc == ComputeHostRow

SpecCalc == InitCalc /\ [][NextCalc]_vars

(***************************************************************************)
(* Properties.                                                              *)
(***************************************************************************)
CallsOf(op, k) == {i \in 1..Len(calls) : calls[i].op = op /\ calls[i].k = k}

OpenOk(k) == \E i \in CallsOf("CreateContainerView", k) : calls[i].ok

OpenFailed(k) == \E i \in CallsOf("CreateContainerView", k) : ~calls[i].ok

RetrieveOk(k) == \E i \in CallsOf("Retrieve", k) : calls[i].ok

RetrieveFailed(k) == \E i \in CallsOf("Retrieve", k) : ~calls[i].ok

DestroyCount(k) == Cardinality(CallsOf("Destroy", k))

IsWork(c) == c.op # "Destroy"

\* a login, scope-open or retrieval has failed
Failed == \E i \in 1..Len(calls) : IsWork(calls[i]) /\ ~calls[i].ok

BadURL == vc = "" \/ vc \in MalformedURLs

IsTitle(l) == l.t = "title"

IsTableLine(l) == l.t \in {"title", "sep", "header", "row", "blank"}

TableLines(out) == SelectSeq(out, IsTableLine)

Titles == SelectSeq(stdout, IsTitle)

\* the table of kind k has been flushed to standard output
TablePrinted(k) == \E j \in 1..Len(stdout) : stdout[j] = Header(k)

\* the value of a decimal numeral with an optional leading minus sign
DigitVal(c) == CHOOSE d \in 0..9 : DigitChar[d + 1] = c

RECURSIVE ParseNat(_)
ParseNat(str) ==
    IF str = <<>> THEN <<>>
    ELSE LET high == ParseNat(SubSeq(str, 1, Len(str) - 1))
             unit == NFromInt(DigitVal(str[Len(str)]))
         IN  IF high = <<>> THEN unit ELSE NAdd(NMulLimb(high, 10), unit)

ParseInt(str) ==
    IF str[1] = "-" THEN Z(TRUE, ParseNat(Tail(str))) ELSE Z(FALSE, ParseNat(str))

\* C1: on every exit path of a run, every inventory scope whose open
\* succeeded has had its Destroy issued exactly once when the run has ended,
\* and no scope's Destroy is ever issued twice.
C1_ReleasedExactlyOnce ==
    /\ \A k \in KindIds : DestroyCount(k) <= 1
    /\ pc = "exited" => \A k \in KindIds : OpenOk(k) => DestroyCount(k) = 1

\* a run that opened the host scope, failed the retrieval on it, and ended
C1_Witness ==
    /\ pc = "exited"
    /\ OpenOk(1)
    /\ RetrieveFailed(1)
    /\ DestroyCount(1) = 1

\* C2 as stated: each kind's scope is closed before the next kind's scope is
\* opened, so at most one inventory scope is open at any moment.
C2_Original ==
    /\ Cardinality({k \in KindIds : OpenOk(k) /\ DestroyCount(k) = 0}) <= 1
    /\ \A k \in KindIds :
          (k > 1 /\ CallsOf("CreateContainerView", k) # {} /\ OpenOk(k - 1))
             => DestroyCount(k - 1) = 1

WorkOrder ==
    <<[op |-> "Login", k |-> 0],
      [op |-> "CreateContainerView", k |-> 1], [op |-> "Retrieve", k |-> 1],
      [op |-> "CreateContainerView", k |-> 2], [op |-> "Retrieve", k |-> 2],
      [op |-> "CreateContainerView", k |-> 3], [op |-> "Retrieve", k |-> 3]>>

\* C2, amended: the run is the linear sequence open, fetch, compute and
\* render per kind, for host, then storage volume, then virtual machine; no
\* scope is closed between kinds: every close comes after the last open and
\* retrieval of the run, in reverse order of opening.
C2_LinearWithDeferredClose ==
    /\ LET work == SelectSeq(calls, IsWork)
       IN  /\ Len(work) <= Len(WorkOrder)
           /\ \A i \in 1..Len(work) :
                 /\ work[i].op = WorkOrder[i].op
                 /\ work[i].k = WorkOrder[i].k
    /\ \A i, j \in 1..Len(calls) :
          (i < j /\ calls[i].op = "Destroy")
             => (calls[j].op = "Destroy" /\ calls[j].k < calls[i].k)
    /\ \A k \in KindIds :
          /\ TablePrinted(k) => RetrieveOk(k)
          /\ (k > 1 /\ CallsOf("CreateContainerView", k) # {}) => TablePrinted(k - 1)

\* the three scopes are open at once
C2_Witness ==
    /\ pc = "render"
    /\ \A k \in KindIds : OpenOk(k) /\ DestroyCount(k) = 0

\* C3: once a login, scope-open or retrieval has failed, no table line is
\* printed any more and the only endpoint calls issued are Destroy calls.
C3_StrictAbort ==
    [][Failed =>
         /\ TableLines(stdout') = TableLines(stdout)
         /\ \A i \in (Len(calls) + 1)..Len(calls') : calls'[i].op = "Destroy"]_vars

\* the datastore retrieval failed after the host table; both scopes released
C3_Witness ==
    /\ pc = "exited"
    /\ RetrieveFailed(2)
    /\ TablePrinted(1)
    /\ DestroyCount(1) = 1
    /\ DestroyCount(2) = 1

\* C4: a run interrupted while a scope-open or retrieval is in flight has
\* released every scope it opened when it has ended.
C4_InterruptReleasesScopes ==
    (pc = "exited" /\ exit = "killed")
       => \A k \in KindIds : OpenOk(k) => DestroyCount(k) = 1

\* C5: with an empty or unparseable endpoint URL the run never gets to the
\* login: no endpoint call is issued and no table line is printed.
C5_BadURLStopsBeforeLogin ==
    BadURL =>
       /\ calls = <<>>
       /\ TableLines(stdout) = <<>>
       /\ pc \in {"start", "parse", "unwind", "exited"}

\* the run with no GOVMOMI_URL has ended
C5_Witness ==
    /\ vc = ""
    /\ pc = "exited"
    /\ ctx = "cancelled"

\* C6: a kind whose scope-open failed gets no retrieval and no Destroy.
C6_NoUseOfFailedScope ==
    \A k \in KindIds :
       OpenFailed(k) => (CallsOf("Retrieve", k) = {} /\ CallsOf("Destroy", k) = {})

\* the datastore scope-open failed and the run ended, releasing the host scope
C6_Witness ==
    /\ pc = "exited"
    /\ OpenFailed(2)
    /\ DestroyCount(1) = 1

\* the run completed every step: it returned from the end of main
FullSuccess ==
    /\ pc = "exited"
    /\ exit = "return"
    /\ ~Failed
    /\ ~BadURL

\* C7: the titles printed are those of hosts, storage volumes, virtual
\* machines in this order, each at most once; a title is directly followed by
\* its separator; every header and row follows the title and separator of its
\* own kind and no later title precedes it; a fully successful run prints the
\* three tables.
C7_TablesInOrder ==
    /\ Len(Titles) <= Len(Kinds)
    /\ \A i \in 1..Len(Titles) : Titles[i] = Title(i)
    /\ \A i \in 1..Len(stdout) :
          IsTitle(stdout[i])
             => (i < Len(stdout) /\ stdout[i + 1] = Separator(stdout[i].k))
    /\ \A j \in 1..Len(stdout) :
          stdout[j].t \in {"header", "row"}
             => /\ \E i \in 1..(j - 2) :
                      /\ stdout[i] = Title(stdout[j].k)
                      /\ stdout[i + 1] = Separator(stdout[j].k)
                /\ \A i \in 1..(j - 1) :
                      IsTitle(stdout[i]) => stdout[i].k <= stdout[j].k
    /\ FullSuccess => (Len(Titles) = Len(Kinds) /\ \A k \in KindIds : TablePrinted(k))

\* a fully successful run that printed two host rows
C7_Witness ==
    /\ FullSuccess
    /\ Len(hss) = 2
    /\ Len(Titles) = 3
    /\ \E j \in 1..Len(stdout) : stdout[j].t = "row" /\ stdout[j].k = 1

\* C8: login is issued at most once, and for each kind the scope-open and the
\* retrieval are each issued at most once.
C8_NoRepeatedCall ==
    /\ Cardinality(CallsOf("Login", 0)) <= 1
    /\ \A k \in KindIds :
          /\ Cardinality(CallsOf("CreateContainerView", k)) <= 1
          /\ Cardinality(CallsOf("Retrieve", k)) <= 1

\* two hosts were returned, the datastore retrieval failed, the run ended
C8_Witness ==
    /\ pc = "exited"
    /\ Len(hss) >= 2
    /\ RetrieveFailed(2)
    /\ Cardinality(CallsOf("Retrieve", 2)) = 1

\* C9: the total CPU cell is the numeral of CpuMhz * NumCpuCores and the free
\* CPU cell the numeral of that product minus OverallCpuUsage, as integers
\* without wrap-around; a negative free CPU carries a minus sign; a zero
\* clock speed or core count gives a total of 0.
C9_CpuArithmetic ==
    calcPc = "done" =>
       LET total == ZMul(calcHost.CpuMhz, calcHost.NumCpuCores)
           free  == ZSub(total, calcHost.OverallCpuUsage)
       IN  /\ ParseInt(calcRow.cells[3]) = total
           /\ ParseInt(calcRow.cells[4]) = free
           /\ InRange(total, 64) /\ InRange(free, 64)
           /\ free.neg <=> calcRow.cells[4][1] = "-"
           /\ (calcHost.CpuMhz = ZFromInt(0) \/ calcHost.NumCpuCores = ZFromInt(0))
                 => calcRow.cells[3] = <<"0">>

\* clock speed 2000, 2 cores, 5000 used: total 4000, free -1000
C9_Witness ==
    /\ calcPc = "done"
    /\ calcHost.CpuMhz = ZFromInt(2000)
    /\ calcHost.NumCpuCores = ZFromInt(2)
    /\ calcHost.OverallCpuUsage = ZFromInt(5000)
    /\ calcRow.cells[3] = <<"4", "0", "0", "0">>
    /\ calcRow.cells[4] = <<"-", "1", "0", "0", "0">>

\* C10: the free memory cell is the numeral of MemorySize minus
\* OverallMemoryUsage * 1024 * 1024 as integers, without rounding or
\* wrap-around, with a minus sign when it is negative.
C10_FreeMemoryExact ==
    calcPc = "done" =>
       LET used == ZMul(calcHost.OverallMemoryUsage, ZFromInt(Mi))
           free == ZSub(calcHost.MemorySize, used)
       IN  /\ ParseInt(calcRow.cells[7]) = free
           /\ free.neg <=> calcRow.cells[7][1] = "-"

\* no memory and the largest 32-bit usage: -(2^31 - 1) * 2^20 bytes free
C10_Witness ==
    /\ calcPc = "done"
    /\ calcHost.MemorySize = ZFromInt(0)
    /\ calcHost.OverallMemoryUsage = MaxInt(32)
    /\ calcRow.cells[7] = <<"-", "2", "2", "5", "1", "7", "9", "9", "8", "1",
                            "2", "6", "3", "6", "6", "7", "2">>

\* the objects the retrieval of kind k returned
Objs(k) == <<hss, dss, vms>>[k]

\* the rows of kind k on standard output, in order
RowsOf(k) == SelectSeq(stdout, LAMBDA l : l.t = "row" /\ l.k = k)

\* the first cell of the row of an object of kind k
NameCell(k, o) == IF k = 3 THEN o.name \o ":" ELSE o.name

\* C11: a printed table of a kind has exactly one row per object the
\* retrieval of that kind returned, in the order returned; a kind whose table
\* is not printed has no row.
C11_RowsFollowObjects ==
    \A k \in KindIds :
       IF TablePrinted(k)
       THEN /\ Len(RowsOf(k)) = Len(Objs(k))
            /\ \A i \in 1..Len(Objs(k)) :
                  RowsOf(k)[i].cells[1] = NameCell(k, Objs(k)[i])
       ELSE RowsOf(k) = <<>>

\* two datastores returned twice the same, and two hosts not in name order
C11_Witness ==
    /\ pc = "exited"
    /\ TablePrinted(1) /\ TablePrinted(2)
    /\ Len(hss) = 2 /\ hss[1].name = "esx02" /\ hss[2].name = "esx01"
    /\ Len(dss) = 2 /\ dss[1] = dss[2]
    /\ Len(RowsOf(2)) = 2

(***************************************************************************)
(* The row computation on host summaries whose MemorySize ranges over byte  *)
(* counts around every unit boundary, of both signs.                        *)
(***************************************************************************)
UnitPowers == {ZPow2(10 * i) : i \in 0..Len(UnitNames)}

ByteMagnitudes ==
    UnitPowers
      \cup {ZSub(p, ZFromInt(1)) : p \in UnitPowers}
      \cup {ZAdd(p, ZFromInt(1)) : p \in UnitPowers}
      \cup {ZPow2(10 * i + 9) : i \in 0..(Len(UnitNames) - 1)}
      \cup {ZAdd(ZPow2(10 * i), ZPow2(10 * i - 1)) : i \in 1..Len(UnitNames)}
      \cup {MaxInt(64)}

ByteDomain == ByteMagnitudes \cup {ZNeg(b) : b \in ByteMagnitudes} \cup {MinInt(64)}

InitBytes ==
    /\ vc = ""
    /\ pc = "start"
    /\ kind = 0
    /\ ctx = "none"
    /\ deferred = <<>>
    /\ calls = <<>>
    /\ stdout = <<>>
    /\ exit = "none"
    /\ hss = <<>>
    /\ dss = <<>>
    /\ vms = <<>>
    /\ calcPc = "ready"
    /\ calcHost \in {Host("esx", TRUE, ZFromInt(0), ZFromInt(0), ZFromInt(0), b, ZFromInt(0)) :
                       b \in ByteDomain}
    /\ calcRow = Line("row", 1, <<>>)

SpecBytes == InitBytes /\ [][NextCalc]_vars

\* the unit a non-negative byte count is to be shown in: the largest i with
\* b \div 1024^i at least 1, 0 (plain bytes) when there is none
RECURSIVE LargestUnit(_, _)
LargestUnit(mag, i) ==
    IF i = 0 THEN 0
    ELSE IF NShr(mag, 10 * i) # <<>> THEN i
    ELSE LargestUnit(mag, i - 1)

UnitLabel(i) == IF i = 0 THEN "B" ELSE UnitNames[i]

C13_DiagnosticThenNothing ==
    /\ (pc \in {"unwind", "exited"} /\ (BadURL \/ Failed))
          => \E j \in 1..Len(stdout) : stdout[j].t = "diag"
    /\ \A i, j \in 1..Len(stdout) :
          (i < j /\ stdout[i].t = "diag") => ~IsTableLine(stdout[j])

\* the virtual machine scope-open failed after two tables; its diagnostic is
\* the last line
C13_Witness ==
    /\ pc = "exited"
    /\ OpenFailed(3)
    /\ TablePrinted(2)
    /\ stdout[Len(stdout)] = CreateDiag(3)

Destroys == SelectSeq(calls, LAMBDA c : c.op = "Destroy")

\* C14: every endpoint call, the Destroy calls included, is issued while the
\* context is live; the Destroy calls run in reverse order of opening; the
\* context is cancelled only by the last deferred call, after which the run
\* has ended.
C14_ContextLiveForCalls ==
    /\ \A i \in 1..Len(calls) : calls[i].ctx = "live"
    /\ \A i, j \in 1..Len(Destroys) : i < j => Destroys[i].k > Destroys[j].k
    /\ ctx = "cancelled" => (pc = "exited" /\ deferred = <<>>)
    /\ (pc = "exited" /\ deferred = <<>>) => ctx = "cancelled"

\* the three scopes released, virtual machine first, then the cancel
C14_Witness ==
    /\ pc = "exited"
    /\ ctx = "cancelled"
    /\ Len(Destroys) = 3
    /\ Destroys[1].k = 3 /\ Destroys[2].k = 2 /\ Destroys[3].k = 1

\* the lines of kind k among the first n lines of standard output
LinesBefore(k, t, n) ==
    {j \in 1..(n - 1) : stdout[j].t = t /\ stdout[j].k = k}

\* C15: a table line of a kind (title, separator, header, row) is on
\* standard output only if the scope-open and the retrieval of that kind
\* succeeded; and when the diagnostic of a failing kind is printed, the table
\* of every earlier kind is already out in full: title, separator, header and
\* one row per object.
C15_TableOnlyAfterSuccess ==
    /\ \A j \in 1..Len(stdout) :
          (IsTableLine(stdout[j]) /\ stdout[j].k \in KindIds)
             => (OpenOk(stdout[j].k) /\ RetrieveOk(stdout[j].k))
    /\ \A j \in 1..Len(stdout) :
          (stdout[j].t = "diag" /\ stdout[j].k \in KindIds)
             => /\ LinesBefore(stdout[j].k, "title", Len(stdout) + 1) = {}
                /\ LinesBefore(stdout[j].k, "header", Len(stdout) + 1) = {}
                /\ \A e \in 1..(stdout[j].k - 1) :
                      /\ Cardinality(LinesBefore(e, "title", j)) = 1
                      /\ Cardinality(LinesBefore(e, "sep", j)) = 1
                      /\ Cardinality(LinesBefore(e, "header", j)) = 1
                      /\ Cardinality(LinesBefore(e, "row", j)) = Len(Objs(e))

\* the virtual machine retrieval failed after the host and datastore tables
C15_Witness ==
    /\ pc = "exited"
    /\ RetrieveFailed(3)
    /\ Len(hss) >= 1 /\ Len(dss) >= 1
    /\ TablePrinted(1) /\ TablePrinted(2)
    /\ stdout[Len(stdout)] = RetrieveDiag(3)

(***************************************************************************)
(* Termination.  main is sequential and every endpoint call returns, so a   *)
(* step that can be taken is eventually taken.                              *)
(***************************************************************************)
SpecFair == Init /\ [][Next]_vars /\ WF_vars(Next)

TablesPrinted == Cardinality({k \in KindIds : TablePrinted(k)})

\* the program printed a diagnostic line on standard output (the report the
\* Go runtime writes for a panic goes to standard error and is not a line of
\* the program)
Diagnosed == \E j \in 1..Len(stdout) : stdout[j].t = "diag"

OutcomeComplete == TablesPrinted = Len(Kinds) /\ ~Diagnosed

OutcomeAborted == Diagnosed /\ TablesPrinted < Len(Kinds)

\* C16: every run ends, and a run that has ended either printed the three
\* tables and no diagnostic, or a diagnostic and fewer than three tables,
\* never both and never neither.
C16_TerminatesInOneOutcome ==
    /\ <>(pc = "exited")
    /\ [](pc = "exited" => (OutcomeComplete /\ ~OutcomeAborted)
                              \/ (OutcomeAborted /\ ~OutcomeComplete))

=============================================================================
